---- MODULE Spec2Model ----
(***************************************************************************)
(* Model of lsst.obs.base.gen3.ingest.RawIngestTask: the per-file ingest   *)
(* pipeline (ensureDimensions, ingestFile, processFile) and the batch      *)
(* driver (run) with its onError policies, against a Registry that offers  *)
(* exactly the operations the task calls.                                  *)
(*                                                                         *)
(* The Registry/Butler are collaborators of the task.  They are modelled   *)
(* by the behaviour the task's code relies on: findDimensionEntry returns  *)
(* None for an absent entry, setDimensionRegion(update=False) raises       *)
(* IntegrityError when a region is already stored for the data ID,         *)
(* Butler.ingest raises ConflictingDefinitionError when the dataset exists *)
(* in the run's collection and changes nothing in that case, and           *)
(* butler.transaction() restores the Registry on an exceptional exit.      *)
(* Coordinates are in half pixels so that Box2D(Box2I) stays integral.     *)
(***************************************************************************)
EXTENDS Integers, Sequences, FiniteSets, TLC

\* ------------------------------------------------------------ bounds
MaxFiles == 3
MaxRuns == 2
MaxExpId == 8
MaxExpBits == 4
MaxNaxis == 3
MaxPad == 2

\* ------------------------------------------------------------ inputs
\* The raw files offered to run().  Each stands for its header: what
\* ObservationInfo translates from it, the size of its pixel bounding box
\* and the translation its WCS applies (hasWcs FALSE: the astrometric
\* keys are absent).  fA and fB are two detectors of one exposure; fC names
\* a detector the Registry does not hold; fD is detector d1 in a second
\* exposure of the same visit, with its own pointing.
Instrument == "HSC"
DefaultRun == "raw"
StashName == "stash"
None == "None"

FileNames == {"fA", "fB", "fC", "fD"}

\* fX is a copy of fA that the Datastore cannot take in: Butler.ingest
\* fails on it with OSError once the Registry has accepted the dataset.
Unreadable == {"fX"}
IoFileNames == {"fA", "fX"}

\* fN is an exposure of detector d1 whose observation has no visit id.
NoVisitFileNames == {"fA", "fN"}

Header(file) ==
    CASE file = "fA" -> [instrument |-> Instrument, exposure_id |-> "e1", visit_id |-> "v1", detector_num |-> "d1",
                         physical_filter |-> "r", naxis |-> <<2, 2>>,
                         hasWcs |-> TRUE, crval |-> <<0, 0>>]
      [] file = "fB" -> [instrument |-> Instrument, exposure_id |-> "e1", visit_id |-> "v1", detector_num |-> "d2",
                         physical_filter |-> "r", naxis |-> <<2, 2>>,
                         hasWcs |-> TRUE, crval |-> <<4, 0>>]
      [] file = "fC" -> [instrument |-> Instrument, exposure_id |-> "e1", visit_id |-> "v1", detector_num |-> "d3",
                         physical_filter |-> "r", naxis |-> <<2, 2>>,
                         hasWcs |-> TRUE, crval |-> <<8, 0>>]
      [] file = "fD" -> [instrument |-> Instrument, exposure_id |-> "e2", visit_id |-> "v1", detector_num |-> "d1",
                         physical_filter |-> "r", naxis |-> <<2, 2>>,
                         hasWcs |-> TRUE, crval |-> <<0, 2>>]
      [] file = "fX" -> [instrument |-> Instrument, exposure_id |-> "e1", visit_id |-> "v1", detector_num |-> "d1",
                         physical_filter |-> "r", naxis |-> <<2, 2>>,
                         hasWcs |-> TRUE, crval |-> <<0, 0>>]
      [] file = "fN" -> [instrument |-> Instrument, exposure_id |-> "e3", visit_id |-> None, detector_num |-> "d1",
                         physical_filter |-> "r", naxis |-> <<2, 2>>,
                         hasWcs |-> TRUE, crval |-> <<0, 4>>]

Range(s) == {s[k] : k \in DOMAIN s}

\* ------------------------------------------------------------ RawIngestConfig
Configs ==
    [conflict : {"ignore", "fail"},
     stash : {None, StashName},
     onError : {"continue", "break", "rollback"},
     doAddRegions : BOOLEAN,
     padRegionAmount : {0, 1}]

\* The configurations the task is constructed with: the default padRegionAmount.
InitConfigs == {c \in Configs : c.padRegionAmount = 0}

\* ------------------------------------------------------------ geometry
Cross(a, b, p) == (b[1] - a[1]) * (p[2] - a[2]) - (b[2] - a[2]) * (p[1] - a[1])

InSegment(p, a, b) ==
    /\ Cross(a, b, p) = 0
    /\ (p[1] - a[1]) * (p[1] - b[1]) + (p[2] - a[2]) * (p[2] - b[2]) <= 0

InTriangle(p, a, b, c) ==
    /\ Cross(a, b, c) # 0
    /\ \/ (Cross(a, b, p) >= 0 /\ Cross(b, c, p) >= 0 /\ Cross(c, a, p) >= 0)
       \/ (Cross(a, b, p) <= 0 /\ Cross(b, c, p) <= 0 /\ Cross(c, a, p) <= 0)

\* p lies in a triangle of the fan that spans the hull of T from its point a,
\* or on a segment between two points of T.
InFan(p, a, T) ==
    \/ \E b \in T : \E c \in T : InSegment(p, b, c)
    \/ \E b \in T : \E c \in T : InTriangle(p, a, b, c)

\* p lies in the convex hull of the points T.
InConv(p, T) == T # {} /\ InFan(p, CHOOSE a \in T : TRUE, T)

\* The extreme points of S: the vertices of its convex hull.
HullSet(S) == {p \in S : ~InConv(p, S \ {p})}

PointLess(p, q) == p[1] < q[1] \/ (p[1] = q[1] /\ p[2] < q[2])

RECURSIVE VertexList(_)
VertexList(S) ==
    IF S = {} THEN <<>>
    ELSE LET m == CHOOSE p \in S : \A q \in S : p = q \/ PointLess(p, q)
         IN <<m>> \o VertexList(S \ {m})

\* ConvexPolygon(vertices): the hull of the given points, as its vertex list.
ConvexPolygon(vertices) == VertexList(HullSet(Range(vertices)))

\* Box2D(bboxFromMetadata(header)), as <<min, max>>: pixel centres are
\* integers, so the box of naxis pixels runs from -1/2 to naxis - 1/2.
HeaderBox(naxis) == <<<<-1, -1>>, <<2 * naxis[1] - 1, 2 * naxis[2] - 1>>>>

\* Box2D(bboxFromMetadata(header)) grown by the pad, as <<min, max>>.
PaddedBoxNotGrown(naxis, pad) == HeaderBox(naxis)
PaddedBox(naxis, pad) ==
    LET lo == IF pad > 0 THEN -1 - 2 * pad ELSE -1
        hx == 2 * (naxis[1] - 1) + 1
        hy == 2 * (naxis[2] - 1) + 1
    IN <<<<lo, lo>>,
         <<IF pad > 0 THEN hx + 2 * pad ELSE hx, IF pad > 0 THEN hy + 2 * pad ELSE hy>>>>

\* bbox.getCorners()
Corners(box) ==
    <<box[1], <<box[2][1], box[1][2]>>, box[2], <<box[1][1], box[2][2]>>>>

\* wcs.pixelToSky(point)
PixelToSky(crval, p) == <<p[1] + crval[1], p[2] + crval[2]>>

\* A region that is None.
NoRegion == <<>>

\* buildRegion(headers): raised stands for the ValueError of SkyWcs(header).
BuildRegion(header, pad) ==
    IF ~header.hasWcs THEN [raised |-> TRUE, region |-> NoRegion]
    ELSE LET corners == Corners(PaddedBox(header.naxis, pad))
         IN [raised |-> FALSE,
             region |-> ConvexPolygon([k \in 1..4 |-> PixelToSky(header.crval, corners[k])])]

\* ------------------------------------------------------------ state
VARIABLES
    config,                \* self.config, fixed at construction
    registry,              \* butler.registry: dimension entries, regions, datasets, runs
    txStack,               \* Registry snapshots of the open butler.transaction() scopes
    dimensionEntriesDone,  \* self.dimensionEntriesDone
    visitRegions,          \* self.visitRegions: (instrument, visit) -> list of vertices
    stashRunId,            \* self.stashRun.id: None until ensureRun has added the Run
    pc,                    \* "idle", in run(): "loop" or "raised", after it: "done"
    i,                     \* number of files the loop of run() has taken
    exc,                   \* the exception in flight, None if none
    nRuns,                 \* run() calls made so far
    preRun,                \* the Registry when the current run() was called
    runResult,             \* how the last run() call ended and what it did
    ev,                    \* what the last processFile call of the current run did
    addCount,              \* addDimensionEntry calls of this instance, per entry
    firstWritten           \* files whose detector region this instance has stored

vars == <<config, registry, txStack, dimensionEntriesDone, visitRegions, stashRunId,
          pc, i, exc, nRuns, preRun, runResult, ev, addCount, firstWritten>>

\* self.dimensions, in the order the constructor extracts them.
Dimensions == <<"instrument", "detector", "physical_filter", "visit", "exposure">>

\* extractDataId(file, headers, obsInfo)
ExtractAllDimensions(header) ==
    [dimensions |-> Range(Dimensions),
     instrument |-> header.instrument,
     exposure |-> header.exposure_id,
     visit |-> header.visit_id,
     detector |-> header.detector_num,
     physical_filter |-> header.physical_filter]
ExtractDataId(header) ==
    LET toRemove == (IF header.visit_id = None THEN {"visit"} ELSE {})
                    \cup (IF header.physical_filter = None THEN {"physical_filter"} ELSE {})
    IN [dimensions |-> Range(Dimensions) \ toRemove,
        instrument |-> header.instrument,
        exposure |-> header.exposure_id,
        visit |-> header.visit_id,
        detector |-> header.detector_num,
        physical_filter |-> header.physical_filter]

\* DataId(fullDataId, dimension=dimension): the key of one dimension entry.
DimensionDataId(fullDataId, dimension) ==
    <<dimension, fullDataId.instrument, fullDataId[dimension]>>

\* DataId(fullDataId, dimensions=['visit', 'detector', 'instrument'])
DetectorRegionId(fullDataId) ==
    <<"visit_detector", fullDataId.instrument, fullDataId.visit, fullDataId.detector>>

VisitRegionId(instrument, visit) == <<"visit", instrument, visit>>

\* The data ID of the "raw" dataset type: (instrument, detector, exposure).
DatasetId(fullDataId) ==
    <<fullDataId.instrument, fullDataId.detector, fullDataId.exposure>>

\* ------------------------------------------------------------ Registry
\* registry.transaction(): what the Registry holds after the scope is left
\* by an exception (saved: its content when the scope was entered).
RollbackOnly(current, saved) == current
RollbackKeepsRuns(current, saved) == [saved EXCEPT !.runs = current.runs]
RollbackKeepsStash(current, saved) ==
    [saved EXCEPT !.datasets = @ \cup {d \in current.datasets : d[2] = StashName}]
Rollback(current, saved) == saved

\* registry.findDimensionEntry(dimension, dataId) is not None
FindDimensionEntry(reg, entry) == entry \in reg.dimEntries

\* registry.addDimensionEntry(dimension, dataId)
AddDimensionEntry(reg, entry) == [reg EXCEPT !.dimEntries = @ \cup {entry}]

\* registry.setDimensionRegion(dataId, update=False): IntegrityError if a
\* region is stored for the data ID, and then the Registry is unchanged.
SetRegionOverwrites(reg, id, region) ==
    [registry |-> [reg EXCEPT !.regions = (id :> region) @@ @], raised |-> FALSE]
SetDimensionRegionNoUpdate(reg, id, region) ==
    IF id \in DOMAIN reg.regions
    THEN [registry |-> reg, raised |-> TRUE]
    ELSE [registry |-> [reg EXCEPT !.regions = (id :> region) @@ @], raised |-> FALSE]

\* registry.expandDataId(dataId, region=True).region
ExistingRegion(reg, id) ==
    IF id \in DOMAIN reg.regions THEN reg.regions[id] ELSE NoRegion

\* butler.ingest(file, datasetType, dataId) into a run's collection:
\* ConflictingDefinitionError if the dataset is already in that collection.
ButlerIngestUnchecked(reg, datasetId, collection) ==
    [registry |-> [reg EXCEPT !.datasets = @ \cup {<<datasetId, collection>>}],
     raised |-> FALSE]
ButlerIngest(reg, datasetId, collection) ==
    IF <<datasetId, collection>> \in reg.datasets
    THEN [registry |-> reg, raised |-> TRUE]
    ELSE [registry |-> [reg EXCEPT !.datasets = @ \cup {<<datasetId, collection>>}],
          raised |-> FALSE]

\* registry.ensureRun(run): the Run is added to the Registry.
EnsureRun(reg, name) == [reg EXCEPT !.runs = @ \cup {name}]

\* registry.registerDatasetType(datasetType)
RegisterDatasetType(reg) == [reg EXCEPT !.datasetTypes = @ \cup {"raw"}]

\* ------------------------------------------------------------ ensureDimensions
\* One pass of the loop over self.dimensions.  st carries the Registry, the
\* cache, the exception raised so far and the Registry calls made.
ReconcileInsertsAll(st, entry) ==
    IF FindDimensionEntry(st.registry, entry)
    THEN [st EXCEPT !.lookups = @ \cup {entry}, !.done = @ \cup {entry}]
    ELSE [st EXCEPT !.lookups = @ \cup {entry},
                    !.registry = AddDimensionEntry(@, entry),
                    !.inserts = @ \cup {entry},
                    !.txLog = @ \o <<"addDimensionEntry">>,
                    !.done = @ \cup {entry}]
ReconcileUncached(st, entry) ==
    IF FindDimensionEntry(st.registry, entry)
    THEN [st EXCEPT !.lookups = @ \cup {entry}, !.done = @ \cup {entry}]
    ELSE IF entry[1] \in {"visit", "exposure"}
         THEN [st EXCEPT !.lookups = @ \cup {entry},
                         !.registry = AddDimensionEntry(@, entry),
                         !.inserts = @ \cup {entry},
                         !.txLog = @ \o <<"addDimensionEntry">>,
                         !.done = @ \cup {entry}]
         ELSE [st EXCEPT !.lookups = @ \cup {entry}, !.exc = "LookupError"]

ReconcileAlways(st, entry) == ReconcileUncached(st, entry)
ReconcileDimension(st, entry) ==
    IF entry \in st.done THEN st ELSE ReconcileUncached(st, entry)

\* DataId(fullDataId, dimension=dimension) for a dimension the identity
\* does not hold: the constructor (daf_butler) either refuses the missing
\* key with LookupError or builds a data ID whose key is None; st.missingKeyRaises
\* says which.
DimensionDataIdRaises(st, fullDataId, dimension) ==
    dimension \notin fullDataId.dimensions /\ st.missingKeyRaises

RECURSIVE ReconcileFrom(_, _, _)
ReconcileFrom(st, fullDataId, k) ==
    IF k > Len(Dimensions) \/ st.exc # None THEN st
    ELSE IF DimensionDataIdRaises(st, fullDataId, Dimensions[k])
    THEN [st EXCEPT !.exc = "LookupError"]
    ELSE ReconcileFrom(ReconcileDimension(st, DimensionDataId(fullDataId, Dimensions[k])),
                       fullDataId, k + 1)

\* self.visitRegions.setdefault(key, []).extend(region.getVertices())
ExtendVisitRegions(vr, key, region) ==
    IF key \in DOMAIN vr THEN [vr EXCEPT ![key] = @ \o region] ELSE (key :> region) @@ vr

\* The try block of ensureDimensions: setDimensionRegion(update=False) of
\* the region built, then the vertices are kept for the visit; an
\* IntegrityError is swallowed.
WriteDetectorRegion(st, id, key, region) ==
    IF SetDimensionRegionNoUpdate(st.registry, id, region).raised
    THEN [st EXCEPT !.regionWrite = "exists"]
    ELSE [st EXCEPT !.registry = SetDimensionRegionNoUpdate(@, id, region).registry,
                    !.regionWrite = "written",
                    !.txLog = @ \o <<"setDimensionRegion">>,
                    !.visitRegions = ExtendVisitRegions(@, key, region)]

\* The part of ensureDimensions after the loop over self.dimensions.
AddDetectorRegionAlways(st, cfg, fullDataId, built) ==
    IF st.exc # None THEN st
    ELSE IF built.raised THEN [st EXCEPT !.exc = "ValueError"]
    ELSE WriteDetectorRegion(st, DetectorRegionId(fullDataId),
                             <<fullDataId.instrument, fullDataId.visit>>, built.region)
AddDetectorRegion(st, cfg, fullDataId, built) ==
    IF st.exc # None \/ ~cfg.doAddRegions THEN st
    ELSE IF built.raised THEN [st EXCEPT !.exc = "ValueError"]
    ELSE WriteDetectorRegion(st, DetectorRegionId(fullDataId),
                             <<fullDataId.instrument, fullDataId.visit>>, built.region)

\* ensureDimensions(file), from the task state st.
EnsureDimensions(st, cfg, file) ==
    AddDetectorRegion(ReconcileFrom(st, ExtractDataId(Header(file)), 1), cfg,
                      ExtractDataId(Header(file)),
                      BuildRegion(Header(file), cfg.padRegionAmount))

\* ------------------------------------------------------------ ingestFile, processFile
\* ingestFile(file, headers, dataId, run) for the file of st: Butler.ingest
\* into the run's collection.  raised stands for IngestConflictError; error
\* is any other exception of Butler.ingest, which ingestFile does not catch.
IngestFileTranslatesAll(st, fullDataId, run) ==
    IF st.file \in Unreadable
    THEN [registry |-> st.registry, raised |-> TRUE, error |-> None]
    ELSE [registry |-> ButlerIngest(st.registry, DatasetId(fullDataId),
                                    IF run # None /\ run # DefaultRun
                                    THEN run ELSE DefaultRun).registry,
          raised |-> ButlerIngest(st.registry, DatasetId(fullDataId),
                                  IF run # None /\ run # DefaultRun
                                  THEN run ELSE DefaultRun).raised,
          error |-> None]
IngestFile(st, fullDataId, run) ==
    LET collection == IF run # None /\ run # DefaultRun THEN run ELSE DefaultRun
        res == ButlerIngest(st.registry, DatasetId(fullDataId), collection)
    IN IF res.raised
       THEN [registry |-> st.registry, raised |-> TRUE, error |-> None]
       ELSE IF st.file \in Unreadable
            THEN [registry |-> st.registry, raised |-> FALSE, error |-> "OSError"]
            ELSE [registry |-> res.registry, raised |-> FALSE, error |-> None]

\* The ingest into the stash in its own transaction; res is what
\* ingestFile(file, headers, dataId, run=self.stashRun) did.
StashConflictDropped(st, res) ==
    IF res.error # None
    THEN [st EXCEPT !.exc = res.error,
                    !.outcome = "failed",
                    !.txLog = @ \o <<"begin", "ingest", "rollback">>]
    ELSE IF res.raised
    THEN [st EXCEPT !.outcome = "dropped",
                    !.txLog = @ \o <<"begin", "ingest", "commit">>]
    ELSE [st EXCEPT !.registry = res.registry,
                    !.outcome = "stash",
                    !.txLog = @ \o <<"begin", "ingest", "commit">>]
StashIngested(st, res) ==
    IF res.error # None
    THEN [st EXCEPT !.exc = res.error,
                    !.outcome = "failed",
                    !.txLog = @ \o <<"begin", "ingest", "rollback">>]
    ELSE IF res.raised
    THEN [st EXCEPT !.exc = "IngestConflictError",
                    !.outcome = "failed",
                    !.txLog = @ \o <<"begin", "ingest", "rollback">>]
    ELSE [st EXCEPT !.registry = res.registry,
                    !.outcome = "stash",
                    !.txLog = @ \o <<"begin", "ingest", "commit">>]

\* if self.stashRun.id is None: self.butler.registry.ensureRun(self.stashRun)
EnsureStashRun(st, cfg) ==
    IF st.stashRunId = None
    THEN [st EXCEPT !.registry = EnsureRun(@, cfg.stash),
                    !.stashRunId = "id",
                    !.txLog = @ \o <<"ensureRun">>]
    ELSE st

\* processFile from "if self.stashRun is not None" on.
IngestToStashFrom(st, cfg, fullDataId) ==
    StashIngested(st, IngestFile(st, fullDataId, cfg.stash))
IngestToStash(st, cfg, fullDataId) ==
    IngestToStashFrom(EnsureStashRun(st, cfg), cfg, fullDataId)

\* What processFile does once the default-collection ingest has raised
\* IngestConflictError inside its transaction.
ConflictAlwaysStash(st, cfg, fullDataId) ==
    IF cfg.stash # None
    THEN IngestToStash([st EXCEPT !.txLog = @ \o <<"commit">>], cfg, fullDataId)
    ELSE [st EXCEPT !.outcome = "dropped", !.txLog = @ \o <<"commit">>]
ConflictAlwaysDrop(st, cfg, fullDataId) ==
    IF cfg.conflict = "fail"
    THEN [st EXCEPT !.exc = "IngestConflictError", !.outcome = "failed",
                    !.txLog = @ \o <<"rollback">>]
    ELSE [st EXCEPT !.outcome = "dropped", !.txLog = @ \o <<"commit">>]
ConflictAlwaysRaise(st, cfg, fullDataId) ==
    [st EXCEPT !.exc = "IngestConflictError", !.outcome = "failed",
               !.txLog = @ \o <<"rollback">>]
OnConflictNested(st, cfg, fullDataId) ==
    IF cfg.conflict = "fail"
    THEN [st EXCEPT !.exc = "IngestConflictError", !.outcome = "failed",
                    !.txLog = @ \o <<"rollback">>]
    ELSE IF cfg.stash # None
         THEN [IngestToStash(st, cfg, fullDataId) EXCEPT !.txLog = @ \o <<"commit">>]
         ELSE [st EXCEPT !.outcome = "dropped", !.txLog = @ \o <<"commit">>]
OnConflictRollsBack(st, cfg, fullDataId) ==
    IF cfg.conflict = "fail"
    THEN [st EXCEPT !.exc = "IngestConflictError", !.outcome = "failed",
                    !.txLog = @ \o <<"rollback">>]
    ELSE IF cfg.stash # None
         THEN IngestToStash([st EXCEPT !.txLog = @ \o <<"rollback">>], cfg, fullDataId)
         ELSE [st EXCEPT !.outcome = "dropped", !.txLog = @ \o <<"rollback">>]
OnConflict(st, cfg, fullDataId) ==
    IF cfg.conflict = "fail"
    THEN [st EXCEPT !.exc = "IngestConflictError", !.outcome = "failed",
                    !.txLog = @ \o <<"rollback">>]
    ELSE IF cfg.stash # None
         THEN IngestToStash([st EXCEPT !.txLog = @ \o <<"commit">>], cfg, fullDataId)
         ELSE [st EXCEPT !.outcome = "dropped", !.txLog = @ \o <<"commit">>]

\* processFile after ensureDimensions has returned: the ingest into the
\* default collection inside its transaction; res is what ingestFile did.
DefaultIngested(st, cfg, fullDataId, res) ==
    IF res.error # None
    THEN [st EXCEPT !.ensured = TRUE,
                    !.exc = res.error,
                    !.outcome = "failed",
                    !.txLog = @ \o <<"begin", "ingest", "rollback">>]
    ELSE IF ~res.raised
    THEN [st EXCEPT !.ensured = TRUE,
                    !.registry = res.registry,
                    !.outcome = "default",
                    !.txLog = @ \o <<"begin", "ingest", "commit">>]
    ELSE OnConflict([st EXCEPT !.ensured = TRUE,
                               !.conflicted = TRUE,
                               !.txLog = @ \o <<"begin", "ingest">>],
                    cfg, fullDataId)

ProcessEnsured(ed, cfg, fullDataId) ==
    IF ed.exc # None THEN [ed EXCEPT !.outcome = "failed"]
    ELSE DefaultIngested(ed, cfg, fullDataId, IngestFile(ed, fullDataId, None))

\* processFile(file), from the task state st.
ProcessFile(st, cfg, file) ==
    ProcessEnsured(EnsureDimensions([st EXCEPT !.file = file], cfg, file), cfg,
                   ExtractDataId(Header(file)))

\* ------------------------------------------------------------ _addVisitRegions
\* The region _addVisitRegions stores for one key of self.visitRegions.
MergedWithoutExisting(reg, vr, key) == ConvexPolygon(vr[key])
MergedVisitRegion(reg, vr, key) ==
    LET existingRegion == ExistingRegion(reg, VisitRegionId(key[1], key[2]))
        vertices == IF existingRegion # NoRegion THEN existingRegion \o vr[key] ELSE vr[key]
    IN ConvexPolygon(vertices)

AddNoVisitRegions(reg, vr) == reg
\* _addVisitRegions(): every key of self.visitRegions gets its merged region
\* by registry.setDimensionRegion(instrument=, visit=, region=), which
\* inserts or updates.
AddVisitRegions(reg, vr) ==
    LET ids == {VisitRegionId(key[1], key[2]) : key \in DOMAIN vr}
    IN [reg EXCEPT !.regions =
            [id \in (DOMAIN @) \cup ids |->
                IF id \in ids THEN MergedVisitRegion(reg, vr, <<id[2], id[3]>>) ELSE @[id]]]

\* ------------------------------------------------------------ run
\* Where run() goes when processFile has raised.
StopOnError(onError) == "done"
GoOnAfterError(onError) == IF onError = "rollback" THEN "done" ELSE "loop"
AfterError(onError) == IF onError = "continue" THEN "loop" ELSE "done"

\* The state processFile starts from.
CallState ==
    [file |-> None, missingKeyRaises |-> TRUE,
     registry |-> registry, done |-> dimensionEntriesDone, visitRegions |-> visitRegions,
     stashRunId |-> stashRunId, exc |-> None, lookups |-> {}, inserts |-> {},
     regionWrite |-> "none", ensured |-> FALSE, conflicted |-> FALSE,
     outcome |-> "none", txLog |-> <<>>]

NoEvent ==
    [file |-> None, outcome |-> "none", exc |-> None, lookups |-> {}, inserts |-> {},
     regionWrite |-> "none", ensured |-> FALSE, conflicted |-> FALSE, txLog |-> <<>>]

\* Which kinds of Registry content a rollback from current to saved removes.
Undone(current, saved) ==
    (IF current.dimEntries # saved.dimEntries THEN {"dimEntries"} ELSE {})
    \cup (IF current.datasets # saved.datasets THEN {"datasets"} ELSE {})
    \cup (IF current.regions # saved.regions THEN {"regions"} ELSE {})
    \cup (IF current.runs # saved.runs THEN {"runs"} ELSE {})

NoResult == [status |-> "none", firstFailed |-> 0, postPass |-> FALSE, undone |-> {}]

StaticEntries ==
    {<<"instrument", Instrument, Instrument>>,
     <<"detector", Instrument, "d1">>, <<"detector", Instrument, "d2">>,
     <<"physical_filter", Instrument, "r">>}

Init ==
    /\ config \in InitConfigs
    /\ registry = [dimEntries |-> StaticEntries, regions |-> <<>>, datasets |-> {},
                   runs |-> {DefaultRun}, datasetTypes |-> {}]
    /\ txStack = <<>>
    /\ dimensionEntriesDone = {}
    /\ visitRegions = <<>>
    /\ stashRunId = None
    /\ pc = "idle"
    /\ i = 0
    /\ exc = None
    /\ nRuns = 0
    /\ preRun = registry
    /\ runResult = NoResult
    /\ ev = NoEvent
    /\ addCount = <<>>
    /\ firstWritten = {}

\* RawIngestTask(config, butler=butler): a new task on the same butler.
NewTask ==
    /\ pc = "done"
    /\ dimensionEntriesDone' = {}
    /\ visitRegions' = <<>>
    /\ stashRunId' = None
    /\ addCount' = <<>>
    /\ firstWritten' = {}
    /\ pc' = "idle"
    /\ i' = 0
    /\ preRun' = registry
    /\ runResult' = NoResult
    /\ ev' = NoEvent
    /\ UNCHANGED <<config, registry, txStack, exc, nRuns>>

\* run(files) up to the loop: registerDatasetType, and under
\* onError == "rollback" the transaction around the whole loop.
Run ==
    /\ pc \in {"idle", "done"}
    /\ nRuns < MaxRuns
    /\ registry' = RegisterDatasetType(registry)
    /\ txStack' = IF config.onError = "rollback" THEN <<registry'>> ELSE <<>>
    /\ i' = 0
    /\ pc' = "loop"
    /\ nRuns' = nRuns + 1
    /\ preRun' = registry
    /\ runResult' = [NoResult EXCEPT !.status = "running"]
    /\ ev' = NoEvent
    /\ UNCHANGED <<config, dimensionEntriesDone, visitRegions, stashRunId, exc, addCount,
                   firstWritten>>

\* One iteration of the loop: files yields its next element, and
\* processFile(file).
ProcessNext(file) ==
    /\ pc = "loop"
    /\ i < MaxFiles
    /\ i' = i + 1
    /\ \E r \in {ProcessFile(CallState, config, file)} :
          /\ registry' = r.registry
          /\ dimensionEntriesDone' = r.done
          /\ visitRegions' = r.visitRegions
          /\ stashRunId' = r.stashRunId
          /\ exc' = r.exc
          /\ pc' = IF r.exc = None THEN "loop" ELSE "raised"
          /\ ev' = [file |-> file, outcome |-> r.outcome, exc |-> r.exc,
                    lookups |-> r.lookups, inserts |-> r.inserts,
                    regionWrite |-> r.regionWrite, ensured |-> r.ensured,
                    conflicted |-> r.conflicted, txLog |-> r.txLog]
          /\ addCount' = [e \in (DOMAIN addCount) \cup r.inserts |->
                            (IF e \in DOMAIN addCount THEN addCount[e] ELSE 0)
                            + (IF e \in r.inserts THEN 1 ELSE 0)]
          /\ firstWritten' = IF r.regionWrite = "written" THEN firstWritten \cup {file}
                             ELSE firstWritten
    /\ UNCHANGED <<config, txStack, nRuns, preRun, runResult>>

\* onError == "continue": the exception is caught and logged.
OnErrorContinue ==
    /\ pc = "raised"
    /\ config.onError = "continue"
    /\ pc' = AfterError(config.onError)
    /\ exc' = None
    /\ runResult' = [runResult EXCEPT !.firstFailed = IF @ = 0 THEN i ELSE @,
                                      !.status = IF pc' = "done" THEN "raised" ELSE @]
    /\ UNCHANGED <<config, registry, txStack, dimensionEntriesDone, visitRegions, stashRunId,
                   i, nRuns, preRun, ev, addCount, firstWritten>>

\* onError == "break": the exception leaves run().
OnErrorBreak ==
    /\ pc = "raised"
    /\ config.onError = "break"
    /\ pc' = AfterError(config.onError)
    /\ exc' = None
    /\ runResult' = [runResult EXCEPT !.status = "raised",
                                      !.firstFailed = IF @ = 0 THEN i ELSE @]
    /\ UNCHANGED <<config, registry, txStack, dimensionEntriesDone, visitRegions, stashRunId,
                   i, nRuns, preRun, ev, addCount, firstWritten>>

\* onError == "rollback": the exception leaves the transaction around the
\* loop, which rolls the Registry back, and then run().
OnErrorRollback ==
    /\ pc = "raised"
    /\ config.onError = "rollback"
    /\ registry' = Rollback(registry, txStack[1])
    /\ txStack' = <<>>
    /\ pc' = AfterError(config.onError)
    /\ exc' = None
    /\ runResult' = [runResult EXCEPT !.status = "raised",
                                      !.firstFailed = IF @ = 0 THEN i ELSE @,
                                      !.undone = Undone(registry, registry')]
    /\ UNCHANGED <<config, dimensionEntriesDone, visitRegions, stashRunId,
                   i, nRuns, preRun, ev, addCount, firstWritten>>

\* files is exhausted: _addVisitRegions() under doAddRegions, the
\* commit of the transaction around the loop, and the return of run().
Finish ==
    /\ pc = "loop"
    /\ registry' = IF config.doAddRegions THEN AddVisitRegions(registry, visitRegions)
                   ELSE registry
    /\ txStack' = <<>>
    /\ pc' = "done"
    /\ runResult' = [runResult EXCEPT !.status = "returned",
                                      !.postPass = config.doAddRegions]
    /\ UNCHANGED <<config, dimensionEntriesDone, visitRegions, stashRunId, i, exc, nRuns,
                   preRun, ev, addCount, firstWritten>>

Next ==
    \/ Run
    \/ \E file \in FileNames : ProcessNext(file)
    \/ OnErrorContinue
    \/ OnErrorBreak
    \/ OnErrorRollback
    \/ Finish
    \/ NewTask

Spec == Init /\ [][Next]_vars

\* ------------------------------------------------------------ properties
\* A step of the loop of run(): processFile has been called on ev'.file.
ProcessStep == pc = "loop" /\ i' = i + 1

\* The dataset identity of a file and the detector-region key of a file.
DatasetIdOf(file) == DatasetId(ExtractDataId(Header(file)))
RegionIdOf(file) == DetectorRegionId(ExtractDataId(Header(file)))

\* Everything stored in reg is stored in reg2: dimension entries, datasets,
\* detector regions with their value, and a visit region for each visit.
Keeps(reg, reg2) ==
    /\ reg.dimEntries \subseteq reg2.dimEntries
    /\ reg.datasets \subseteq reg2.datasets
    /\ \A id \in DOMAIN reg.regions :
          /\ id \in DOMAIN reg2.regions
          /\ id[1] = "visit_detector" => reg2.regions[id] = reg.regions[id]

\* C1: under onError = rollback, when file k > 1 raises, the dimension
\* entries, datasets and regions of the Registry after run are those it
\* held when run was called.
C1_RollbackRestores ==
    (pc = "done" /\ config.onError = "rollback" /\ runResult.status = "raised" /\ i > 1)
    => /\ registry.dimEntries = preRun.dimEntries
       /\ registry.datasets = preRun.datasets
       /\ registry.regions = preRun.regions

\* A rollback run has failed at a file after the first and has undone
\* dimension entries, datasets and regions of the earlier files.
C1_Witness ==
    /\ pc = "done" /\ config.onError = "rollback" /\ runResult.status = "raised" /\ i > 1
    /\ {"dimEntries", "datasets", "regions"} \subseteq runResult.undone

\* C2: under onError = continue, a file that raises does not end the loop
\* (it goes on to take the next file, and run only ends by returning once
\* files is exhausted), and nothing stored for earlier files is removed.
C2_ContinueGoesOn ==
    /\ [](config.onError = "continue" /\ pc = "done" => runResult.status = "returned")
    /\ [][config.onError = "continue"
            => /\ pc = "raised" => (pc' = "loop" /\ i' = i /\ registry' = registry)
               /\ Keeps(registry, registry')]_vars

\* File 2 of 3 has raised under continue, file 1 is ingested and file 3 has
\* been ingested after the failure.
C2_Witness ==
    /\ config.onError = "continue" /\ pc = "loop" /\ i = 3
    /\ runResult.firstFailed = 2
    /\ ev.outcome = "default"
    /\ Cardinality(registry.datasets) = 2

\* C3: under onError = break, the first exception leaves run: the loop takes
\* no further file, what earlier files stored stays, and _addVisitRegions
\* does not run (the visit regions are those of before the run).
C3_BreakStops ==
    /\ []((config.onError = "break" /\ pc = "done" /\ runResult.status = "raised")
            => /\ ~runResult.postPass
               /\ runResult.firstFailed = i
               /\ \A id \in (DOMAIN registry.regions) \cup (DOMAIN preRun.regions) :
                     id[1] = "visit" => /\ id \in DOMAIN preRun.regions
                                        /\ id \in DOMAIN registry.regions
                                        /\ registry.regions[id] = preRun.regions[id])
    /\ [][config.onError = "break"
            => /\ pc = "raised" => (pc' = "done" /\ i' = i /\ registry' = registry)
               /\ (pc = "done" /\ pc' = "done") => i' = i
               /\ Keeps(registry, registry')]_vars

\* A break run has stopped at its second file: the first file's dataset and
\* detector region are stored, its vertices wait in self.visitRegions, and
\* no visit region has been written.
C3_Witness ==
    /\ config.onError = "break" /\ pc = "done" /\ runResult.status = "raised" /\ i = 2
    /\ registry.datasets # {}
    /\ DOMAIN visitRegions # {}
    /\ \A id \in DOMAIN registry.regions : id[1] = "visit_detector"
    /\ DOMAIN registry.regions # {}

\* The file of a loop step finds a dataset of its identity in the default
\* collection, and ensureDimensions has returned for it.
ConflictStep ==
    /\ ProcessStep
    /\ ev'.ensured
    /\ <<DatasetIdOf(ev'.file), DefaultRun>> \in registry.datasets

\* C4: with conflict = ignore and a stash configured, a file whose identity
\* has a dataset in the default collection and none in the stash gets a
\* dataset in the stash collection and nothing else changes among the
\* datasets (the default collection keeps its one dataset of the identity);
\* processFile returns without an exception.
C4_ConflictGoesToStash ==
    [][(/\ ConflictStep
        /\ config.conflict = "ignore" /\ config.stash # None
        /\ <<DatasetIdOf(ev'.file), config.stash>> \notin registry.datasets)
       => /\ registry'.datasets
               = registry.datasets \cup {<<DatasetIdOf(ev'.file), config.stash>>}
          /\ <<DatasetIdOf(ev'.file), DefaultRun>> \in registry'.datasets
          /\ exc' = None
          /\ pc' = "loop"
          /\ ev'.outcome = "stash"]_vars

\* A file has lost a conflict and its dataset is in the stash, beside the
\* dataset of the same identity in the default collection.
C4_Witness ==
    /\ config.conflict = "ignore" /\ config.stash = StashName
    /\ pc = "loop" /\ ev.conflicted /\ ev.outcome = "stash"
    /\ <<DatasetIdOf(ev.file), StashName>> \in registry.datasets
    /\ <<DatasetIdOf(ev.file), DefaultRun>> \in registry.datasets

\* C5: with conflict = ignore and no stash, a file whose identity has a
\* dataset in the default collection leaves the datasets of every
\* collection as they were, and processFile returns without an exception.
C5_ConflictDropped ==
    [][(ConflictStep /\ config.conflict = "ignore" /\ config.stash = None)
       => /\ registry'.datasets = registry.datasets
          /\ exc' = None
          /\ pc' = "loop"
          /\ ev'.outcome = "dropped"]_vars

\* A file has lost a conflict without a stash and the loop goes on.
C5_Witness ==
    /\ config.conflict = "ignore" /\ config.stash = None
    /\ pc = "loop" /\ ev.conflicted /\ ev.outcome = "dropped"
    /\ <<DatasetIdOf(ev.file), DefaultRun>> \in registry.datasets
    /\ Cardinality(registry.datasets) = 1

\* C6: with conflict = fail, a conflict in the default collection leaves
\* processFile as IngestConflictError and creates no dataset; the stash
\* run is never registered and nothing is ever written to the stash
\* collection, also when a stash name is configured.
C6_ConflictFails ==
    /\ [](config.conflict = "fail"
            => /\ stashRunId = None
               /\ StashName \notin registry.runs
               /\ \A d \in registry.datasets : d[2] # StashName)
    /\ [][(ConflictStep /\ config.conflict = "fail")
           => /\ exc' = "IngestConflictError"
              /\ pc' = "raised"
              /\ registry'.datasets = registry.datasets
              /\ registry'.runs = registry.runs
              /\ stashRunId' = stashRunId]_vars

\* A conflict has been raised out of processFile although a stash name is
\* configured.
C6_Witness ==
    /\ config.conflict = "fail" /\ config.stash = StashName
    /\ pc = "raised" /\ exc = "IngestConflictError" /\ ev.conflicted
    /\ <<DatasetIdOf(ev.file), DefaultRun>> \in registry.datasets

\* The dimension entries of the instrument, detector and physical_filter
\* dimensions in a Registry, and those a file needs.
StaticDimensions == {"instrument", "detector", "physical_filter"}
StaticOf(reg) == {e \in reg.dimEntries : e[1] \in StaticDimensions}
StaticNeeded(file) ==
    {DimensionDataId(ExtractDataId(Header(file)), dimension) : dimension \in StaticDimensions}

\* C7: the instrument, detector and physical_filter entries of the Registry
\* are always those it started with, and a file that needs such an entry
\* the Registry does not hold makes ensureDimensions raise LookupError.
C7_StaticNeverInserted ==
    /\ [](StaticOf(registry) = StaticEntries)
    /\ [][(ProcessStep /\ ~(StaticNeeded(ev'.file) \subseteq registry.dimEntries))
           => /\ exc' = "LookupError"
              /\ pc' = "raised"
              /\ ~ev'.ensured
              /\ ev'.inserts \cap StaticNeeded(ev'.file) = {}]_vars

\* A file of a detector the Registry does not describe has raised
\* LookupError after another file was ingested.
C7_Witness ==
    /\ pc = "raised" /\ exc = "LookupError" /\ ev.file = "fC" /\ i > 1
    /\ registry.datasets # {}
    /\ <<"detector", Instrument, "d3">> \in ev.lookups
    /\ <<"detector", Instrument, "d3">> \notin registry.dimEntries

\* C8: a processFile call makes no findDimensionEntry and no
\* addDimensionEntry call for an entry that is in self.dimensionEntriesDone
\* when it starts, and a task instance calls addDimensionEntry at most once
\* for each entry.
C8_CachedEntriesSkipped ==
    /\ [](\A e \in DOMAIN addCount : addCount[e] <= 1)
    /\ [][ProcessStep => /\ ev'.lookups \cap dimensionEntriesDone = {}
                          /\ ev'.inserts \cap dimensionEntriesDone = {}
                          /\ dimensionEntriesDone \subseteq dimensionEntriesDone']_vars

\* The second detector of an exposure: only its detector entry is looked
\* up, the exposure and visit entries inserted for the first file are
\* taken from the cache.
C8_Witness ==
    /\ pc = "loop" /\ ev.file = "fB"
    /\ ev.lookups = {<<"detector", Instrument, "d2">>}
    /\ ev.inserts = {}
    /\ <<"exposure", Instrument, "e1">> \in DOMAIN addCount
    /\ addCount[<<"exposure", Instrument, "e1">>] = 1
    /\ {<<"exposure", Instrument, "e1">>, <<"visit", Instrument, "v1">>}
           \subseteq dimensionEntriesDone

\* C9: when the detector region of a file's (instrument, visit, detector)
\* is already stored, the write of ensureDimensions changes no region, the
\* IntegrityError is swallowed and ensureDimensions returns.
C9_SecondRegionWriteNoOp ==
    [][(/\ ProcessStep
        /\ ev'.regionWrite # "none"
        /\ RegionIdOf(ev'.file) \in DOMAIN registry.regions)
       => /\ ev'.regionWrite = "exists"
          /\ registry'.regions = registry.regions
          /\ ev'.ensured
          /\ ev'.exc \in {None, "IngestConflictError"}]_vars

\* A second exposure of a visit and detector, with another pointing: the
\* region stored is still the one of the first exposure.
C9_Witness ==
    /\ ev.file = "fD" /\ ev.regionWrite = "exists" /\ ev.ensured
    /\ RegionIdOf("fD") \in DOMAIN registry.regions
    /\ registry.regions[RegionIdOf("fD")] = BuildRegion(Header("fA"), 0).region
    /\ registry.regions[RegionIdOf("fD")] # BuildRegion(Header("fD"), 0).region

\* The (instrument, visit) key of a file, the detector region built for it,
\* and the polygon of a set of vertices.
VisitKeyOf(file) == <<ExtractDataId(Header(file)).instrument, ExtractDataId(Header(file)).visit>>
RegionOf(file) == BuildRegion(Header(file), config.padRegionAmount).region
HullOf(points) == VertexList(HullSet(points))
VerticesOf(fileSet) == UNION {Range(RegionOf(f)) : f \in fileSet}

\* The files whose dataset the current run has added to the default
\* collection.
IngestedInRun ==
    {f \in FileNames :
        <<DatasetIdOf(f), DefaultRun>> \in registry.datasets \ preRun.datasets}

\* A run with region computation has returned.
RegionsRunReturned ==
    pc = "done" /\ runResult.status = "returned" /\ config.doAddRegions

\* C10 as stated: after a run that has ingested each of its N files, all
\* of one visit, the visit region is the hull of the vertices of the
\* detector regions of all N files and of the visit region stored before
\* the run.
C10_HullOfAllFiles ==
    (RegionsRunReturned /\ i > 0 /\ Cardinality(IngestedInRun) = i)
    => \A key \in {VisitKeyOf(f) : f \in IngestedInRun} :
          /\ VisitRegionId(key[1], key[2]) \in DOMAIN registry.regions
          /\ registry.regions[VisitRegionId(key[1], key[2])]
                = HullOf(VerticesOf(IngestedInRun)
                         \cup Range(ExistingRegion(preRun, VisitRegionId(key[1], key[2]))))

\* C10 (amended): after a run that returns, the region of a visit for which
\* the task instance has written detector regions is the hull of the
\* vertices of those detector regions (the ones ensureDimensions stored
\* itself, in this or an earlier run call of the instance) and of the visit
\* region stored before the run; it depends on the set of those files
\* only, not on their order.  A visit without such a file keeps its region.
C10_HullOfFirstWritten ==
    RegionsRunReturned
    => \A key \in {VisitKeyOf(f) : f \in FileNames} :
          LET id == VisitRegionId(key[1], key[2])
              written == {f \in firstWritten : VisitKeyOf(f) = key}
          IN IF written = {}
             THEN ExistingRegion(registry, id) = ExistingRegion(preRun, id)
             ELSE /\ id \in DOMAIN registry.regions
                  /\ registry.regions[id]
                        = HullOf(VerticesOf(written) \cup Range(ExistingRegion(preRun, id)))

\* The second run of an instance has added detector d2 to a visit whose
\* region was stored by the first run for detector d1: the visit region has
\* grown.
C10_Witness ==
    /\ RegionsRunReturned /\ nRuns = 2
    /\ firstWritten = {"fA", "fB"}
    /\ VisitRegionId(Instrument, "v1") \in DOMAIN preRun.regions
    /\ VisitRegionId(Instrument, "v1") \in DOMAIN registry.regions
    /\ registry.regions[VisitRegionId(Instrument, "v1")]
          # preRun.regions[VisitRegionId(Instrument, "v1")]

\* The dataset records a step adds to the Registry.
DatasetsAdded == registry'.datasets \ registry.datasets

\* C11: a processFile call ends in one of four outcomes, and the outcome
\* decides the one dataset record it creates: a record of the file's
\* identity in the default collection that was not there before
\* (ingested), one in the stash collection that was not there before
\* (stashed, the default collection holding the identity already), or none
\* (dropped without an exception, failed with one).  No call creates a
\* record in both collections and none creates a second record of an
\* (identity, collection) pair.
C11_OneOutcomeOneDataset ==
    [][ProcessStep
       => /\ ev'.outcome \in {"default", "stash", "dropped", "failed"}
          /\ registry.datasets \subseteq registry'.datasets
          /\ Cardinality(DatasetsAdded) <= 1
          /\ ev'.outcome = "default"
                => /\ DatasetsAdded = {<<DatasetIdOf(ev'.file), DefaultRun>>}
                   /\ exc' = None
          /\ ev'.outcome = "stash"
                => /\ DatasetsAdded = {<<DatasetIdOf(ev'.file), config.stash>>}
                   /\ <<DatasetIdOf(ev'.file), DefaultRun>> \in registry.datasets
                   /\ exc' = None
          /\ ev'.outcome = "dropped" => (DatasetsAdded = {} /\ exc' = None)
          /\ ev'.outcome = "failed" => (DatasetsAdded = {} /\ exc' # None)]_vars

\* One file has been offered three times in a run: ingested, stashed, and
\* then refused by the stash as well.
C11_Witness ==
    /\ pc = "raised" /\ i = 3 /\ ev.file = "fA" /\ ev.outcome = "failed" /\ ev.conflicted
    /\ registry.datasets = {<<DatasetIdOf("fA"), DefaultRun>>, <<DatasetIdOf("fA"), StashName>>}

\* A run under onError = rollback has been left by an exception.
RollbackRunFailed ==
    pc = "done" /\ config.onError = "rollback" /\ runResult.status = "raised"

\* C12 as stated: after a rollback run in which a file failed, the whole
\* Registry (dataset types and runs included) is as it was when run was
\* called.
C12_WholeCatalogRestored == RollbackRunFailed => registry = preRun

\* C12 (amended): after a rollback run in which a file failed, the
\* dimension entries, datasets, regions and registered runs (the stash
\* included) are those of before the call; the raw dataset type, which run
\* registers before it opens the transaction, stays registered.
C12_RestoredButDatasetType ==
    RollbackRunFailed
    => /\ registry = [preRun EXCEPT !.datasetTypes = @ \cup {"raw"}]
       /\ "raw" \in registry.datasetTypes

\* A rollback run that had registered the stash run and stored datasets has
\* failed: the stash run is gone again, the dataset type registered by the
\* call is not.
C12_Witness ==
    /\ RollbackRunFailed
    /\ {"runs", "datasets", "dimEntries"} \subseteq runResult.undone
    /\ StashName \notin registry.runs
    /\ preRun.datasetTypes = {} /\ registry.datasetTypes = {"raw"}

\* The instrument, detector and visit entries a file's detector region
\* refers to.
RegionEntriesOf(file) ==
    {DimensionDataId(ExtractDataId(Header(file)), dimension) :
        dimension \in {"instrument", "detector", "visit"}}

\* C13: when ensureDimensions stores the detector region of a file, the
\* instrument, detector and visit entries of the file's identity are in the
\* Registry.
C13_EntriesExistAtRegionWrite ==
    [][(ProcessStep /\ ev'.regionWrite = "written")
       => RegionEntriesOf(ev'.file) \subseteq registry'.dimEntries]_vars

\* The Registry calls of a processFile call that change the catalog, and
\* the number of butler.transaction() scopes of that call that are open
\* before its k-th logged call.
Mutations == {"addDimensionEntry", "setDimensionRegion", "ensureRun", "ingest"}
OpenBefore(log, k) ==
    Cardinality({j \in 1..(k - 1) : log[j] = "begin"})
    - Cardinality({j \in 1..(k - 1) : log[j] \in {"commit", "rollback"}})

\* C14: every call that changes the catalog during run is made while a
\* butler.transaction() scope is open (the one around the loop, or one of
\* processFile): the calls of processFile, and the visit-region writes of
\* the post-pass.
C14_MutationsInTransaction ==
    [][/\ ProcessStep
           => \A k \in DOMAIN ev'.txLog :
                 ev'.txLog[k] \in Mutations
                    => Len(txStack) + OpenBefore(ev'.txLog, k) > 0
       /\ (pc = "loop" /\ pc' = "done" /\ registry'.regions # registry.regions)
           => Len(txStack) > 0]_vars

\* ------------------------------------------------------------ extractDataId alone
\* The observations extractDataId is given: any instrument, exposure and
\* detector, with or without a visit id and a physical filter.
ObsInfos ==
    [instrument : {Instrument, "DECam"},
     exposure_id : {"e1", "e2", "e3"},
     visit_id : {None, "v1", "v2"},
     detector_num : {"d1", "d2", "d3"},
     physical_filter : {None, "r", "i"}]

DefaultConfig ==
    [conflict |-> "ignore", stash |-> None, onError |-> "continue",
     doAddRegions |-> TRUE, padRegionAmount |-> 0]

\* A task with the default configuration, about to call extractDataId on
\* an observation (kept in ev with the identity returned).
ExtractInit ==
    /\ config = DefaultConfig
    /\ registry = [dimEntries |-> StaticEntries, regions |-> <<>>, datasets |-> {},
                   runs |-> {DefaultRun}, datasetTypes |-> {}]
    /\ txStack = <<>>
    /\ dimensionEntriesDone = {}
    /\ visitRegions = <<>>
    /\ stashRunId = None
    /\ pc = "extract"
    /\ i = 0
    /\ exc = None
    /\ nRuns = 0
    /\ preRun = registry
    /\ runResult = NoResult
    /\ ev \in [obsInfo : ObsInfos, dataId : {None}]
    /\ addCount = <<>>
    /\ firstWritten = {}

\* dataId = self.extractDataId(file, headers, obsInfo=obsInfo)
ExtractCall ==
    /\ pc = "extract"
    /\ pc' = "extracted"
    /\ ev' = [ev EXCEPT !.dataId = ExtractDataId(ev.obsInfo)]
    /\ UNCHANGED <<config, registry, txStack, dimensionEntriesDone, visitRegions, stashRunId,
                   i, exc, nRuns, preRun, runResult, addCount, firstWritten>>

ExtractNext == ExtractCall

ExtractSpec == ExtractInit /\ [][ExtractNext]_vars

\* C15: the identity extractDataId returns has a dimension set within the
\* configured dimensions that holds instrument, exposure and detector, holds
\* visit exactly when the observation has a visit id, and physical_filter
\* exactly when it has a physical filter.
C15_ExtractedDimensions ==
    pc = "extracted"
    => /\ ev.dataId.dimensions \subseteq Range(Dimensions)
       /\ {"instrument", "exposure", "detector"} \subseteq ev.dataId.dimensions
       /\ ("visit" \in ev.dataId.dimensions) <=> (ev.obsInfo.visit_id # None)
       /\ ("physical_filter" \in ev.dataId.dimensions) <=> (ev.obsInfo.physical_filter # None)

\* An observation with a filter and without a visit id: visit is left out.
C15_Witness ==
    /\ pc = "extracted"
    /\ ev.obsInfo.visit_id = None /\ ev.obsInfo.physical_filter = "i"
    /\ ev.dataId.dimensions = {"instrument", "detector", "physical_filter", "exposure"}

\* C16: under onError = continue with region computation, run ends by
\* returning after the post-pass whatever files failed, and then every
\* visit of a file whose detector region the task has stored has a visit
\* region, which covers that detector region.
C16_PostPassAfterFailures ==
    (pc = "done" /\ config.onError = "continue" /\ config.doAddRegions)
    => /\ runResult.status = "returned"
       /\ runResult.postPass
       /\ \A f \in firstWritten :
             /\ VisitRegionId(VisitKeyOf(f)[1], VisitKeyOf(f)[2]) \in DOMAIN registry.regions
             /\ \A p \in Range(RegionOf(f)) :
                   InConv(p, Range(registry.regions[VisitRegionId(VisitKeyOf(f)[1],
                                                                  VisitKeyOf(f)[2])]))

\* The first file of a run failed, the second stored its detector region,
\* and the run has returned with the visit region written.
C16_Witness ==
    /\ pc = "done" /\ config.onError = "continue" /\ config.doAddRegions
    /\ nRuns = 1 /\ i = 2 /\ runResult.firstFailed = 1
    /\ firstWritten = {"fA"}
    /\ VisitRegionId(Instrument, "v1") \in DOMAIN registry.regions

\* ------------------------------------------------------------ run over files the Datastore refuses
IoNext ==
    \/ Run
    \/ \E file \in IoFileNames : ProcessNext(file)
    \/ OnErrorContinue
    \/ OnErrorBreak
    \/ OnErrorRollback
    \/ Finish
    \/ NewTask

IoSpec == Init /\ [][IoNext]_vars

\* C17: an exception of Butler.ingest other than the conflict leaves
\* processFile as it is, under both conflict policies, and no dataset is
\* created: when it comes from the ingest into the default collection the
\* file is neither sent to the stash (no ensureRun, no second ingest) nor
\* dropped, and when it comes from the ingest into the stash (after a
\* conflict under ignore) it leaves processFile as well.
C17_OtherFailuresPropagate ==
    [][/\ (/\ ProcessStep /\ ev'.file \in Unreadable /\ ev'.ensured
           /\ <<DatasetIdOf(ev'.file), DefaultRun>> \notin registry.datasets)
          => /\ exc' = "OSError" /\ pc' = "raised"
             /\ ev'.outcome = "failed" /\ ~ev'.conflicted
             /\ registry'.datasets = registry.datasets
             /\ registry'.runs = registry.runs
             /\ stashRunId' = stashRunId
             /\ Cardinality({k \in DOMAIN ev'.txLog : ev'.txLog[k] = "ingest"}) = 1
       /\ (/\ ProcessStep /\ ev'.file \in Unreadable /\ ev'.ensured
           /\ <<DatasetIdOf(ev'.file), DefaultRun>> \in registry.datasets
           /\ config.conflict = "ignore" /\ config.stash # None
           /\ <<DatasetIdOf(ev'.file), config.stash>> \notin registry.datasets)
          => /\ exc' = "OSError" /\ pc' = "raised"
             /\ ev'.outcome = "failed"
             /\ registry'.datasets = registry.datasets]_vars

\* The Datastore has refused a file under conflict = ignore with a stash
\* configured: OSError is in flight, nothing is stored and the stash run is
\* not registered.
C17_Witness ==
    /\ pc = "raised" /\ exc = "OSError" /\ ev.file = "fX" /\ ~ev.conflicted
    /\ config.conflict = "ignore" /\ config.stash = StashName
    /\ registry.datasets = {} /\ stashRunId = None /\ StashName \notin registry.runs

\* A processFile step that sends its file to the stash: the default
\* ingest met a conflict under conflict = ignore with a stash configured.
RedirectedStep ==
    ProcessStep /\ ev'.conflicted /\ config.conflict = "ignore" /\ config.stash # None

\* C18: constructing the task, starting a run and processing a file
\* without a redirected conflict register no run; a redirected conflict
\* has the stash run registered in the Registry when it ingests into the
\* stash.
C18_StashRegisteredOnUse ==
    [][/\ (pc \in {"idle", "done"}) => registry'.runs = registry.runs
       /\ (ProcessStep /\ ~RedirectedStep) => registry'.runs = registry.runs
       /\ RedirectedStep => config.stash \in registry'.runs]_vars

\* ------------------------------------------------------------ ExposureIdInfo
\* int.bit_length(): the bits of the absolute value.
RECURSIVE BitLength(_)
BitLength(n) ==
    IF n = 0 THEN 0
    ELSE IF n < 0 THEN BitLength(-n)
    ELSE 1 + BitLength(n \div 2)

\* An optional int: <<>> is None, <<n>> is n.
NoBits == <<>>

\* ExposureIdInfo(expId, expBits, maxBits): the instance, or the exception.
ExposureIdInfoUnchecked(expId, expBits, maxBits) ==
    IF BitLength(expId) > expBits
    THEN [raised |-> "RuntimeError", expId |-> expId, expBits |-> expBits, maxBits |-> maxBits]
    ELSE [raised |-> None, expId |-> expId, expBits |-> expBits, maxBits |-> maxBits]
ExposureIdInfo(expId, expBits, maxBits) ==
    IF BitLength(expId) > expBits
    THEN [raised |-> "RuntimeError", expId |-> expId, expBits |-> expBits, maxBits |-> maxBits]
    ELSE IF maxBits # NoBits /\ maxBits[1] < expBits
         THEN [raised |-> "RuntimeError", expId |-> expId, expBits |-> expBits,
               maxBits |-> maxBits]
         ELSE [raised |-> None, expId |-> expId, expBits |-> expBits, maxBits |-> maxBits]

\* The unusedBits property: delegated is the call of
\* IdFactory.computeReservedFromMaxBits(value).
UnusedBits(info) ==
    IF info.maxBits = NoBits
    THEN [delegated |-> TRUE, value |-> info.expBits]
    ELSE [delegated |-> FALSE, value |-> info.maxBits[1] - info.expBits]

\* The variables of the ingest task, untouched by ExposureIdInfo.
TaskUntouched ==
    /\ config = DefaultConfig
    /\ registry = [dimEntries |-> StaticEntries, regions |-> <<>>, datasets |-> {},
                   runs |-> {DefaultRun}, datasetTypes |-> {}]
    /\ txStack = <<>>
    /\ dimensionEntriesDone = {}
    /\ visitRegions = <<>>
    /\ stashRunId = None
    /\ i = 0
    /\ exc = None
    /\ nRuns = 0
    /\ preRun = registry
    /\ runResult = NoResult
    /\ addCount = <<>>
    /\ firstWritten = {}

\* The arguments of a constructor call (kept in ev with what it gives).
IdInit ==
    /\ TaskUntouched
    /\ pc = "construct"
    /\ ev \in [expId : (-MaxExpId)..MaxExpId,
                expBits : (-1)..MaxExpBits,
                maxBits : {NoBits} \cup {<<b>> : b \in 0..(MaxExpBits + 1)},
                info : {<<>>},
                unused : {<<>>}]

IdConstruct ==
    /\ pc = "construct"
    /\ ev' = [ev EXCEPT !.info = ExposureIdInfo(ev.expId, ev.expBits, ev.maxBits)]
    /\ pc' = IF ev'.info.raised = None THEN "constructed" ELSE "raised"
    /\ UNCHANGED <<config, registry, txStack, dimensionEntriesDone, visitRegions, stashRunId,
                   i, exc, nRuns, preRun, runResult, addCount, firstWritten>>

IdUnusedBits ==
    /\ pc = "constructed"
    /\ ev' = [ev EXCEPT !.unused = UnusedBits(ev.info)]
    /\ pc' = "read"
    /\ UNCHANGED <<config, registry, txStack, dimensionEntriesDone, visitRegions, stashRunId,
                   i, exc, nRuns, preRun, runResult, addCount, firstWritten>>

IdNext == IdConstruct \/ IdUnusedBits

IdSpec == IdInit /\ [][IdNext]_vars

\* C19: the constructor succeeds exactly when expId fits in expBits bits
\* (its absolute value is below 2^expBits) and maxBits, if given, is at
\* least expBits, and raises RuntimeError otherwise; with maxBits given,
\* unusedBits is maxBits - expBits and not negative.
C19_ConstructorChecksBits ==
    /\ pc \in {"constructed", "read"}
         <=> /\ pc # "construct"
             /\ ev.expBits >= 0
             /\ (IF ev.expId < 0 THEN -ev.expId ELSE ev.expId) < 2 ^ ev.expBits
             /\ ev.maxBits = NoBits \/ ev.maxBits[1] >= ev.expBits
    /\ pc = "raised" => ev.info.raised = "RuntimeError"
    /\ pc \in {"constructed", "read"}
         => /\ ev.info.expId = ev.expId /\ ev.info.expBits = ev.expBits
            /\ ev.info.maxBits = ev.maxBits
    /\ (pc = "read" /\ ev.maxBits # NoBits)
         => /\ ~ev.unused.delegated
            /\ ev.unused.value = ev.maxBits[1] - ev.expBits
            /\ ev.unused.value >= 0

\* expId 5 in 3 of 4 bits: one bit is unused.
C19_Witness ==
    /\ pc = "read" /\ ev.expId = 5 /\ ev.expBits = 3 /\ ev.maxBits = <<4>>
    /\ ev.unused.value = 1

\* ------------------------------------------------------------ ExposureIdInfo.fromDataId
\* The data IDs given to fromDataId: a DataCoordinate or not, with records
\* (fully expanded) or not, and what dataId.pack(name, returnMaxBits=True)
\* gives for it: an ID and the number of bits that holds it.
DataIds ==
    [isDataCoordinate : BOOLEAN,
     hasRecords : BOOLEAN,
     packed : {<<id, bits>> : id \in 0..MaxExpId, bits \in 1..MaxExpBits} ]

\* isinstance(DataCoordinate), a call with one argument: TypeError
\* ("isinstance expected 2 arguments, got 1") whatever dataId is.
IsInstanceRaises == TRUE

\* ExposureIdInfo.fromDataId(dataId, name, maxBits)
FromDataId(dataId, maxBits) ==
    IF IsInstanceRaises
    THEN [raised |-> "TypeError", expId |-> 0, expBits |-> 0, maxBits |-> maxBits]
    ELSE IF ~dataId.hasRecords
         THEN [raised |-> "RuntimeError", expId |-> 0, expBits |-> 0, maxBits |-> maxBits]
         ELSE ExposureIdInfo(dataId.packed[1], dataId.packed[2], maxBits)

FromInit ==
    /\ TaskUntouched
    /\ pc = "fromDataId"
    /\ ev \in [dataId : {d \in DataIds : d.packed[1] < 2 ^ d.packed[2]},
                maxBits : {NoBits, <<MaxExpBits + 1>>},
                info : {<<>>}]

FromDataIdCall ==
    /\ pc = "fromDataId"
    /\ ev' = [ev EXCEPT !.info = FromDataId(ev.dataId, ev.maxBits)]
    /\ pc' = "returned"
    /\ UNCHANGED <<config, registry, txStack, dimensionEntriesDone, visitRegions, stashRunId,
                   i, exc, nRuns, preRun, runResult, addCount, firstWritten>>

FromNext == FromDataIdCall

FromSpec == FromInit /\ [][FromNext]_vars

\* C20: fromDataId of a fully expanded DataCoordinate gives the
\* ExposureIdInfo of the packed ID and its bits; of any other data ID it
\* raises RuntimeError.
C20_FromDataIdPacks ==
    pc = "returned"
    => IF ev.dataId.isDataCoordinate /\ ev.dataId.hasRecords
       THEN /\ ev.info.raised = None
            /\ ev.info.expId = ev.dataId.packed[1]
            /\ ev.info.expBits = ev.dataId.packed[2]
       ELSE ev.info.raised = "RuntimeError"

\* ------------------------------------------------------------ per-file transactions
\* What a processFile call has newly stored for its file: exposure and
\* visit entries, the detector region, datasets of its identity.
NewForFile(reg, reg2, file) ==
    [entries |-> {e \in reg2.dimEntries \ reg.dimEntries : e[1] \in {"exposure", "visit"}},
     regions |-> {id \in (DOMAIN reg2.regions) \ (DOMAIN reg.regions) : id = RegionIdOf(file)},
     datasets |-> {d \in reg2.datasets \ reg.datasets : d[1] = DatasetIdOf(file)}]

NothingNew == [entries |-> {}, regions |-> {}, datasets |-> {}]

\* C21: under onError = break or continue, a processFile call that raises
\* leaves in the Registry no exposure or visit entry, no detector region
\* and no dataset newly created for its file.
C21_FailedFileLeavesNothing ==
    [][(ProcessStep /\ config.onError \in {"break", "continue"} /\ exc' # None)
       => NewForFile(registry, registry', ev'.file) = NothingNew]_vars

\* The position of the first ingest call in the log of a processFile call
\* (the attempt into the default collection), and how the transaction
\* opened for it was left: the entry after the ingest.
FirstIngest(log) ==
    CHOOSE k \in DOMAIN log : log[k] = "ingest" /\ \A j \in 1..(k - 1) : log[j] # "ingest"
DefaultExit(log) == log[FirstIngest(log) + 1]

\* The transaction of the default attempt is opened just before its ingest
\* call, and the stash and drop actions come after its exit.
PolicyAfterExit(log) ==
    /\ log[FirstIngest(log) - 1] = "begin"
    /\ \A k \in DOMAIN log :
          log[k] = "ensureRun" \/ (log[k] \in {"begin", "ingest"} /\ k > FirstIngest(log))
             => k > FirstIngest(log) + 1

\* C22 as stated: when the ingest into the default collection raises the
\* conflict, its transaction is left by rollback under both conflict
\* policies, before the stash or drop action.
C22_ConflictExitsByRollback ==
    ev.conflicted
    => /\ DefaultExit(ev.txLog) = "rollback"
       /\ PolicyAfterExit(ev.txLog)

\* C22 (amended): when the ingest into the default collection raises the
\* conflict, its transaction is left by rollback under conflict = fail,
\* where the exception leaves the scope, and by commit under conflict =
\* ignore, where the exception is caught inside the scope; the stash or
\* drop action comes after that exit.
C22_ConflictExitByPolicy ==
    ev.conflicted
    => /\ DefaultExit(ev.txLog) = (IF config.conflict = "fail" THEN "rollback" ELSE "commit")
       /\ PolicyAfterExit(ev.txLog)

\* A conflict under ignore has been sent to the stash: the transaction of
\* the default attempt was committed, then the stash run was registered and
\* the stash ingest made in a second transaction.
C22_Witness ==
    /\ ev.conflicted /\ config.conflict = "ignore" /\ ev.outcome = "stash"
    /\ ev.txLog = <<"begin", "ingest", "commit", "ensureRun", "begin", "ingest", "commit">>

\* The positions of the butler.transaction() entries in the log of a
\* processFile call.
Begins(log) == {k \in DOMAIN log : log[k] = "begin"}

\* C23: the ingest into the stash runs in a transaction of its own, opened
\* after the transaction of the default attempt has been left: a
\* processFile call that reaches the stash opens two transactions, no
\* transaction of processFile is opened while another one of it is open,
\* and each ingest call is alone in its transaction.
C23_StashTransactionNotNested ==
    /\ \A k \in Begins(ev.txLog) :
          /\ OpenBefore(ev.txLog, k) = 0
          /\ k + 2 <= Len(ev.txLog)
          /\ ev.txLog[k + 1] = "ingest"
          /\ ev.txLog[k + 2] \in {"commit", "rollback"}
    /\ (ev.conflicted /\ config.conflict = "ignore" /\ config.stash # None)
          => /\ Cardinality(Begins(ev.txLog)) = 2
             /\ \E k \in Begins(ev.txLog) : k > FirstIngest(ev.txLog) + 1
    /\ ~(ev.conflicted /\ config.conflict = "ignore" /\ config.stash # None)
          => Cardinality(Begins(ev.txLog)) <= 1

\* The stash run was registered by an earlier file; this file's default
\* attempt was closed and its stash attempt refused in a second
\* transaction.
C23_Witness ==
    /\ ev.conflicted /\ config.conflict = "ignore" /\ config.stash = StashName
    /\ ev.txLog = <<"begin", "ingest", "commit", "begin", "ingest", "rollback">>

\* ------------------------------------------------------------ conflicts inside the batch transaction
\* The dimension entries of a file's identity.
EntriesOf(file) ==
    {DimensionDataId(ExtractDataId(Header(file)), dimension) :
        dimension \in ExtractDataId(Header(file)).dimensions}

\* What a file that processFile has handled without an exception has in
\* the Registry reg: its dimension entries, its detector region under
\* doAddRegions, a dataset of its identity in the default collection and,
\* when it lost a conflict with a stash configured, one in the registered
\* stash collection.
FileStored(reg, file, lostConflict) ==
    /\ EntriesOf(file) \subseteq reg.dimEntries
    /\ config.doAddRegions => RegionIdOf(file) \in DOMAIN reg.regions
    /\ <<DatasetIdOf(file), DefaultRun>> \in reg.datasets
    /\ (lostConflict /\ config.stash # None)
          => /\ <<DatasetIdOf(file), config.stash>> \in reg.datasets
             /\ config.stash \in reg.runs

\* C24: under onError = rollback with conflict = ignore, a conflict that is
\* sent to the stash or dropped raises nothing and leaves the transaction
\* around the loop open with all it holds; every file handled without an
\* exception has its entries, region and dataset stored (a conflict loser
\* in the stash when one is configured), later steps of the run keep them,
\* and the return of run commits them.
C24_ConflictKeepsBatch ==
    [][(config.onError = "rollback" /\ config.conflict = "ignore")
       => /\ (/\ ConflictStep
              /\ (config.stash = None
                  \/ <<DatasetIdOf(ev'.file), config.stash>> \notin registry.datasets))
             => (exc' = None /\ pc' = "loop")
          /\ (ProcessStep /\ exc' = None)
             => /\ FileStored(registry', ev'.file, ev'.conflicted)
                /\ Keeps(registry, registry')
                /\ txStack' = txStack /\ Len(txStack) = 1
          /\ (pc = "loop" /\ pc' = "done")
             => /\ Keeps(registry, registry')
                /\ runResult'.status = "returned"
                /\ txStack' = <<>>]_vars

\* C25: with conflict = ignore and a stash configured, a file whose
\* identity has a dataset in the default collection and one in the stash
\* collection makes processFile raise the IngestConflictError of the stash
\* attempt: no dataset is created, the file is not dropped, no further
\* ingest is tried, and run treats the exception by its onError policy
\* (caught under continue, ending run under break and rollback).
C25_StashConflictPropagates ==
    [][/\ (/\ ConflictStep
           /\ config.conflict = "ignore" /\ config.stash # None
           /\ <<DatasetIdOf(ev'.file), config.stash>> \in registry.datasets)
          => /\ exc' = "IngestConflictError"
             /\ pc' = "raised"
             /\ ev'.outcome = "failed"
             /\ registry'.datasets = registry.datasets
             /\ Cardinality({k \in DOMAIN ev'.txLog : ev'.txLog[k] = "ingest"}) = 2
             /\ ev'.txLog[Len(ev'.txLog)] = "rollback"
       /\ (pc = "raised" /\ exc = "IngestConflictError")
          => /\ pc' = (IF config.onError = "continue" THEN "loop" ELSE "done")
             /\ exc' = None
             /\ registry' = (IF config.onError = "rollback" THEN txStack[1] ELSE registry)]_vars

\* The stash collection has refused a file that the default collection
\* had refused: the conflict is in flight under onError = break and both
\* collections hold their one dataset of the identity.
C25_Witness ==
    /\ config.conflict = "ignore" /\ config.stash = StashName /\ config.onError = "break"
    /\ pc = "raised" /\ exc = "IngestConflictError" /\ ev.conflicted
    /\ ev.txLog[Len(ev.txLog)] = "rollback"
    /\ {d \in registry.datasets : d[1] = DatasetIdOf(ev.file)}
          = {<<DatasetIdOf(ev.file), DefaultRun>>, <<DatasetIdOf(ev.file), StashName>>}

\* ------------------------------------------------------------ run over files without a visit
\* One iteration of the loop of run() as in ProcessNext, with either
\* behaviour of the DataId constructor on a missing key.
NoVisitProcessNext(file) ==
    /\ pc = "loop"
    /\ i < MaxFiles
    /\ i' = i + 1
    /\ \E raises \in BOOLEAN :
       \E r \in {ProcessFile([CallState EXCEPT !.missingKeyRaises = raises], config, file)} :
          /\ registry' = r.registry
          /\ dimensionEntriesDone' = r.done
          /\ visitRegions' = r.visitRegions
          /\ stashRunId' = r.stashRunId
          /\ exc' = r.exc
          /\ pc' = IF r.exc = None THEN "loop" ELSE "raised"
          /\ ev' = [file |-> file, outcome |-> r.outcome, exc |-> r.exc,
                    lookups |-> r.lookups, inserts |-> r.inserts,
                    regionWrite |-> r.regionWrite, ensured |-> r.ensured,
                    conflicted |-> r.conflicted, txLog |-> r.txLog]
          /\ addCount' = [e \in (DOMAIN addCount) \cup r.inserts |->
                            (IF e \in DOMAIN addCount THEN addCount[e] ELSE 0)
                            + (IF e \in r.inserts THEN 1 ELSE 0)]
          /\ firstWritten' = IF r.regionWrite = "written" THEN firstWritten \cup {file}
                             ELSE firstWritten
    /\ UNCHANGED <<config, txStack, nRuns, preRun, runResult>>

NoVisitNext ==
    \/ Run
    \/ \E file \in NoVisitFileNames : NoVisitProcessNext(file)
    \/ OnErrorContinue
    \/ OnErrorBreak
    \/ OnErrorRollback
    \/ Finish
    \/ NewTask

NoVisitSpec == Init /\ [][NoVisitNext]_vars

\* C26: for a file whose observation has no visit id and whose instrument,
\* detector and filter entries are in the Registry, ensureDimensions makes
\* no findDimensionEntry and no addDimensionEntry call for the visit
\* dimension and returns, so that processFile goes on to the ingest.
C26_NoVisitSkipsVisit ==
    [][(/\ ProcessStep
        /\ Header(ev'.file).visit_id = None
        /\ StaticNeeded(ev'.file) \subseteq registry.dimEntries)
       => /\ \A e \in ev'.lookups \cup ev'.inserts : e[1] # "visit"
          /\ ev'.ensured]_vars

\* ------------------------------------------------------------ state kept between run calls
\* The files whose detector region the current run call has stored: the
\* region is new since the call and is the one built for the file.
WrittenInRun ==
    {f \in FileNames :
        /\ RegionIdOf(f) \in (DOMAIN registry.regions) \ (DOMAIN preRun.regions)
        /\ registry.regions[RegionIdOf(f)] = RegionOf(f)}

\* C27: the vertices the post-pass of a run call uses for a visit are those
\* of the detector regions stored during that call and of the visit region
\* in the Registry: after a run that returns, the region of each visit is
\* the hull of exactly these, and a visit for which the call stored no
\* detector region keeps the region it had; vertices gathered by an earlier
\* call that was rolled back are in no visit region.
C27_VisitRegionsOfThisRun ==
    RegionsRunReturned
    => \A key \in {VisitKeyOf(f) : f \in FileNames} :
          LET id == VisitRegionId(key[1], key[2])
              written == {f \in WrittenInRun : VisitKeyOf(f) = key}
          IN IF written = {}
             THEN ExistingRegion(registry, id) = ExistingRegion(preRun, id)
             ELSE /\ id \in DOMAIN registry.regions
                  /\ registry.regions[id]
                        = HullOf(VerticesOf(written) \cup Range(ExistingRegion(preRun, id)))

\* C28: with doAddRegions false no step of any run call changes the
\* regions of the Registry: processFile neither builds nor writes a
\* detector region and gathers no vertices, and run ends without the
\* post-pass.
C28_NoRegionsWhenDisabled ==
    /\ [](~config.doAddRegions
            => /\ registry.regions = preRun.regions
               /\ visitRegions = <<>>
               /\ firstWritten = {}
               /\ ev.regionWrite = "none"
               /\ ~runResult.postPass)
    /\ [][~config.doAddRegions => registry'.regions = registry.regions]_vars

\* Two run calls without region computation have ingested files of a visit
\* and returned: the Registry holds datasets and visit entries and no
\* region.
C28_Witness ==
    /\ ~config.doAddRegions /\ pc = "done" /\ runResult.status = "returned" /\ nRuns = 2
    /\ Cardinality(registry.datasets) >= 2
    /\ <<"visit", Instrument, "v1">> \in registry.dimEntries
    /\ registry.regions = <<>>

\* ------------------------------------------------------------ buildRegion alone
\* The headers buildRegion is given and the padRegionAmount of the
\* configuration (an int: negative values can be configured too).
PadHeaders ==
    [naxis : (1..MaxNaxis) \X (1..MaxNaxis),
     crval : {<<0, 0>>, <<4, 0>>, <<0, 2>>},
     hasWcs : BOOLEAN]

\* A task about to call buildRegion (ev keeps the header, the corners of
\* the box and what buildRegion gives).
PadInit ==
    /\ config \in {[DefaultConfig EXCEPT !.padRegionAmount = p] : p \in (-1)..MaxPad}
    /\ registry = [dimEntries |-> StaticEntries, regions |-> <<>>, datasets |-> {},
                   runs |-> {DefaultRun}, datasetTypes |-> {}]
    /\ txStack = <<>>
    /\ dimensionEntriesDone = {}
    /\ visitRegions = <<>>
    /\ stashRunId = None
    /\ pc = "buildRegion"
    /\ i = 0
    /\ exc = None
    /\ nRuns = 0
    /\ preRun = registry
    /\ runResult = NoResult
    /\ ev \in [header : PadHeaders, corners : {<<>>}, built : {<<>>}]
    /\ addCount = <<>>
    /\ firstWritten = {}

\* region = self.buildRegion(headers)
PadBuildRegion ==
    /\ pc = "buildRegion"
    /\ pc' = "built"
    /\ ev' = [ev EXCEPT !.corners = IF ev.header.hasWcs
                                    THEN Corners(PaddedBox(ev.header.naxis,
                                                           config.padRegionAmount))
                                    ELSE <<>>,
                        !.built = BuildRegion(ev.header, config.padRegionAmount)]
    /\ UNCHANGED <<config, registry, txStack, dimensionEntriesDone, visitRegions, stashRunId,
                   i, exc, nRuns, preRun, runResult, addCount, firstWritten>>

PadNext == PadBuildRegion

PadSpec == PadInit /\ [][PadNext]_vars

\* C29: with padRegionAmount = 0 buildRegion projects the four corners of
\* the box of the header; with padRegionAmount = P > 0 it projects the
\* corners of that box moved out by P pixels (2 P half pixels) on each of
\* its four sides, a box that contains the box of the header.
C29_PaddingGrowsBox ==
    (pc = "built" /\ ev.header.hasWcs)
    => LET box == HeaderBox(ev.header.naxis)
           P == config.padRegionAmount
       IN /\ Len(ev.corners) = 4
          /\ P = 0 => ev.corners = Corners(box)
          /\ P > 0 => /\ ev.corners = <<<<box[1][1] - 2 * P, box[1][2] - 2 * P>>,
                                        <<box[2][1] + 2 * P, box[1][2] - 2 * P>>,
                                        <<box[2][1] + 2 * P, box[2][2] + 2 * P>>,
                                        <<box[1][1] - 2 * P, box[2][2] + 2 * P>>>>
                      /\ \A k \in 1..4 : InConv(Corners(box)[k], Range(ev.corners))
                      /\ ev.corners # Corners(box)
          /\ ~ev.built.raised
          /\ ev.built.region
                = ConvexPolygon([k \in 1..4 |-> PixelToSky(ev.header.crval, ev.corners[k])])

\* A region has been built with a pad of two pixels around a 3 x 2 box.
C29_Witness ==
    /\ pc = "built" /\ ev.header.hasWcs /\ config.padRegionAmount = 2
    /\ ev.header.naxis = <<3, 2>>
    /\ ev.corners = <<<<-5, -5>>, <<9, -5>>, <<9, 7>>, <<-5, 7>>>>

\* C30: between the processFile calls of a task instance (before a run,
\* between two files, after a run) every entry recorded in
\* self.dimensionEntriesDone is in the Registry, over every sequence of run
\* calls of the instance.
C30_CacheCoherent ==
    pc \in {"idle", "loop", "done"} => dimensionEntriesDone \subseteq registry.dimEntries

\* The identities that have a dataset in a collection of the Registry.
IdentitiesIn(reg, collection) == {d[1] : d \in {e \in reg.datasets : e[2] = collection}}

\* C31: over every sequence of run calls from a Registry whose stash
\* collection is empty, at every point (during a run, after a run that
\* returned, after one that raised or was rolled back), each identity with
\* a dataset in the stash collection has a dataset in the default
\* collection.
C31_StashHoldsOnlyLosers ==
    IdentitiesIn(registry, StashName) \subseteq IdentitiesIn(registry, DefaultRun)

\* A run that went to the stash was rolled back (both collections were
\* emptied again), and the next run of the instance has stored a dataset
\* in each collection.
C31_Witness ==
    /\ config.onError = "rollback" /\ nRuns = 2 /\ pc = "done"
    /\ runResult.status = "returned"
    /\ preRun.datasets = {}
    /\ stashRunId # None /\ StashName \notin registry.runs
    /\ IdentitiesIn(registry, StashName) = {DatasetIdOf("fA")}
    /\ IdentitiesIn(registry, DefaultRun) = {DatasetIdOf("fA")}

====
